---- MODULE Spec2Model ----
(***************************************************************************)
(* A model of convert_aistudio_to_openwebui.py: the conversion of one      *)
(* AIStudio document into an OpenWebUI chat record (the chunk loop of      *)
(* convert_aistudio_to_openwebui) and the batch driver (process_file,      *)
(* process_directory).                                                     *)
(*                                                                         *)
(* Python values are modelled as follows.  A str is a TLA+ string, a dict  *)
(* is a function whose domain is the set of keys that are present (so      *)
(* d.get(k, v) is Get(d, k, v)), a list is a sequence, None is the token   *)
(* None.  A message dict is created once and then shared by the messages   *)
(* dict and the messages list; the sharing is modelled by a heap of        *)
(* message objects, both collections holding references into it.  A       *)
(* scalar of a mismatched kind (a number or null where a string is         *)
(* expected) is a token too, and an operation that raises on it ends the   *)
(* call in pc = "raised".                                                  *)
(***************************************************************************)
EXTENDS Integers, Sequences, FiniteSets, TLC

(***************************************************************************)
(* Bounds of the model.                                                    *)
(***************************************************************************)
\* The longest chunk list a source document carries.
MaxChunks == 3

\* The number of entries os.listdir returns for the input directory.
MaxEntries == 2

\* The longest list of labeled parts a thought chunk carries.
MaxParts == 2

\* The number of calls of the conversion that are under way at a time.
MaxCalls == 2

(***************************************************************************)
(* Python primitives the code uses.                                        *)
(***************************************************************************)
\* Python's None.
None == "<None>"

\* dict.get(key, default).
Get(d, key, default) == IF key \in DOMAIN d THEN d[key] ELSE default

\* Truth value of a str or None operand of `if` / `and`.
Truthy(v) == v # None /\ v # ""

\* A JSON number where a string is expected, as json.load returns it: the
\* int 42.  Like None it is a token that no text of a document equals.
Int42 == "<int 42>"

\* isinstance(v, str), for the value of a field that holds a scalar.
NonStrings == {None, Int42}
IsStr(v) == v \notin NonStrings

\* sep.join(strs).
RECURSIVE Join(_, _)
Join(sep, strs) ==
    IF strs = <<>> THEN ""
    ELSE IF Len(strs) = 1 THEN strs[1]
    ELSE strs[1] \o sep \o Join(sep, Tail(strs))

\* s[:n] for n >= 0.
Prefix(s, n) == SubSeq(s, 1, IF Len(s) < n THEN Len(s) ELSE n)

\* s[n:] for n >= 0 (n counts the characters dropped).
Suffix(s, n) == SubSeq(s, n + 1, Len(s))

\* s.rfind(ch) for a one-character ch, as a 1-based index; 0 when absent.
RFind(s, ch) ==
    LET hits == {k \in 1..Len(s) : SubSeq(s, k, k) = ch}
    IN  IF hits = {} THEN 0 ELSE CHOOSE k \in hits : \A j \in hits : j <= k

\* s.endswith(suffix).
EndsWith(s, suffix) ==
    /\ Len(s) >= Len(suffix)
    /\ SubSeq(s, Len(s) - Len(suffix) + 1, Len(s)) = suffix

\* os.path.basename(p) on POSIX: what follows the last "/".
Basename(p) == Suffix(p, RFind(p, "/"))

\* os.path.splitext(p)[0]: p without its extension.  The extension starts at
\* the last "." that follows the last "/", unless only dots lie between them.
SplitextRoot(p) ==
    LET sepIndex == RFind(p, "/")
        dotIndex == RFind(p, ".")
    IN  IF /\ dotIndex > sepIndex
           /\ \E k \in (sepIndex + 1)..(dotIndex - 1) : SubSeq(p, k, k) # "."
        THEN Prefix(p, dotIndex - 1)
        ELSE p

(***************************************************************************)
(* The inputs: source documents and title hints.                           *)
(***************************************************************************)
\* Turn chunks.
ChunkUser == [role |-> "user", text |-> "Hello there"]
ChunkModel == [isThought |-> FALSE, role |-> "model", text |-> "Sure."]
\* A turn chunk with neither a role nor a text.
ChunkBare == [finishReason |-> "STOP"]

\* Thought chunks: a flat text; labeled parts, two of them flagged; neither
\* text nor parts.
ThoughtFlat == [isThought |-> TRUE, role |-> "model", text |-> "plan"]
ThoughtParts ==
    [isThought |-> TRUE, role |-> "model", text |-> "flat",
     parts |-> << [text |-> "p1", thought |-> TRUE],
                  [text |-> "aside"],
                  [text |-> "p2", thought |-> TRUE] >>]
ThoughtBare == [isThought |-> TRUE]

TurnChunks == {ChunkUser, ChunkModel, ChunkBare}
ThoughtChunks == {ThoughtFlat, ThoughtParts, ThoughtBare}
ChunkAlphabet == TurnChunks \cup ThoughtChunks

ChunkLists == UNION {[1..n -> ChunkAlphabet] : n \in 0..MaxChunks}

\* The rest of a document: the run configuration is absent, present without
\* a model, or present with one.
RunSettingsChoices ==
    { [app |-> "aistudio"],
      [app |-> "aistudio", runSettings |-> [temperature |-> 1]],
      [app |-> "aistudio", runSettings |-> [model |-> "models/gemini-pro"]] }

\* The source documents: without a chunkedPrompt, with a chunkedPrompt that
\* has no chunk list, and with a chunk list of up to MaxChunks chunks.
Documents ==
    RunSettingsChoices
    \cup {rs @@ [chunkedPrompt |-> [pendingInputs |-> <<>>]] :
            rs \in RunSettingsChoices}
    \cup {rs @@ [chunkedPrompt |-> [chunks |-> cs]] :
            rs \in RunSettingsChoices, cs \in ChunkLists}

\* The parts of a thought chunk: flagged, not flagged (without the flag, or
\* with the flag off), and flagged without a text.
PartAlphabet ==
    { [text |-> "p1", thought |-> TRUE], [text |-> "p2", thought |-> TRUE],
      [text |-> "aside"], [text |-> "off", thought |-> FALSE],
      [thought |-> TRUE] }

PartLists == UNION {[1..n -> PartAlphabet] : n \in 0..MaxParts}

\* Every thought chunk with or without a flat text and with or without a list
\* of up to MaxParts parts.
AllThoughtChunks ==
    { [isThought |-> TRUE] @@ text @@ parts :
        text \in {<<>>, [text |-> "raw"]},
        parts \in {<<>>} \cup {[parts |-> ps] : ps \in PartLists} }

\* The documents that start with such a thought chunk, alone or followed by
\* a second one or by a turn chunk; and a document without chunks.
ThoughtDocuments ==
    { [chunkedPrompt |-> [chunks |-> <<>>]] }
    \cup { [chunkedPrompt |-> [chunks |-> << thought >> \o rest]] :
             thought \in AllThoughtChunks,
             rest \in {<<>>, << ThoughtParts >>, << ChunkModel >>} }

\* The title hints: none, and a file name with a directory and an extension.
Filenames == {None, "exports/chat_2024.json"}

\* User texts of 0, 40, 50, 51 and 60 characters.
UserText40 == "Could you outline the plan for next week"
UserText50 == "Please summarise the attached quarterly report now"
UserText51 == "Please summarise the attached quarterly report now."
UserText60 == "Please summarise the attached quarterly report in two lines."
UserTexts == {"", UserText40, UserText50, UserText51, UserText60}

\* The documents whose first message is a user message with any of these
\* texts or with none, alone, followed by an assistant turn, or preceded by a
\* thought chunk; those whose first message is an assistant message; one of
\* a thought chunk only; and one without chunks.
TitleFirstTurns ==
    { [role |-> "user", text |-> text] : text \in UserTexts }
    \cup { [role |-> "user"], ChunkModel, ChunkBare }
TitleDocuments ==
    { [chunkedPrompt |-> [chunks |-> cs]] : cs \in {<<>>, << ThoughtFlat >>} }
    \cup { [chunkedPrompt |-> [chunks |-> cs]] :
             cs \in UNION { { << first >>, << first, ChunkModel >>,
                              << ThoughtFlat, first >> } :
                            first \in TitleFirstTurns } }

\* The title hints: none, the empty string, and file names with and without a
\* directory, with no, one and two extensions, and starting with a dot.
TitleFilenames ==
    { None, "", "chat_2024.json", "exports/chat_2024.json", "notes.v2.txt",
      "notes", "out.d/notes", "a/b/.env", ".env.bak" }

\* Chunks whose scalar fields are missing or of a mismatched kind: a text
\* that is a number or null, a role that is a number.  The fields that hold
\* a dict or a list (chunkedPrompt, chunks, parts, runSettings) and the two
\* flags are of the right kind wherever they are present.
LooseTurnChunks ==
    { ChunkUser, ChunkBare,
      [role |-> "user", text |-> Int42],
      [role |-> "model", text |-> Int42],
      [role |-> Int42],
      [text |-> None] }
LooseThoughtChunks ==
    { ThoughtFlat,
      [isThought |-> TRUE, text |-> Int42],
      [isThought |-> TRUE, parts |-> << [text |-> Int42, thought |-> TRUE] >>],
      [isThought |-> TRUE, text |-> "flat",
       parts |-> << [thought |-> TRUE], [text |-> Int42] >>] }
LooseChunkLists ==
    UNION {[1..n -> LooseTurnChunks \cup LooseThoughtChunks] : n \in 0..MaxChunks}

\* The documents of such chunks, the run configuration absent, without a
\* model, or with a model that is a number.
LooseDocuments ==
    { rs @@ [chunkedPrompt |-> [chunks |-> cs]] :
        rs \in { [app |-> "aistudio"],
                 [runSettings |-> [temperature |-> 1]],
                 [runSettings |-> [model |-> Int42]] },
        cs \in LooseChunkLists }

\* The arguments of the calls made side by side, document and title hint: a
\* document without chunks, one that ends with a thought no message takes,
\* one whose assistant message takes a thought, and one of two plain turns.
PairArguments ==
    { << [chunkedPrompt |-> [chunks |-> <<>>]], None >>,
      << [chunkedPrompt |-> [chunks |-> << ChunkUser, ThoughtFlat >>]], None >>,
      << [chunkedPrompt |-> [chunks |-> << ThoughtParts, ChunkModel >>]],
         "exports/chat_2024.json" >>,
      << [chunkedPrompt |-> [chunks |-> << ChunkUser, ChunkModel >>]], None >> }

\* The values the wall clock can show when it is read.
ClockValues == {1700000000, 1700000060}

\* The values uuid.uuid4() returns for the messages of one call, in the order
\* it returns them: pairwise distinct tokens, one for each message a document
\* of MaxChunks chunks can produce, in ascending or in descending order.
Uuid(k) == "uuid-" \o ToString(k)
UuidStreams ==
    { [k \in 1..MaxChunks |-> Uuid(k)],
      [k \in 1..MaxChunks |-> Uuid(MaxChunks + 1 - k)] }
ChatUuid == "uuid-chat"
UserUuid == "uuid-user"

(***************************************************************************)
(* The state.                                                              *)
(***************************************************************************)
VARIABLES
    \* convert_aistudio_to_openwebui: its arguments, its position, its
    \* locals, the message objects it has created, and what it returned.
    aistudio_data, filename, pc, i, heap, messages, messages_list,
    parent_id, pending_thoughts, message_index, base_timestamp, result,
    \* The values uuid.uuid4() has yet to return to that call.
    uuids,
    \* The program run: the command line, the input path and what lies under
    \* it, the position in main / process_directory, the list os.listdir
    \* returned, the index of the entry the loop is at, the two counters, the
    \* files of the output path, and the lines printed so far.
    args, input, bpc, listing, entry, success_count, error_count, outputs, stdout,
    \* Calls of the conversion made side by side: the frame of each call (its
    \* arguments, its position, its locals, what it returned).
    calls

conv_vars ==
    << aistudio_data, filename, pc, i, heap, messages, messages_list,
       parent_id, pending_thoughts, message_index, base_timestamp, result,
       uuids >>

batch_vars ==
    << args, input, bpc, listing, entry, success_count, error_count, outputs, stdout >>

vars == << conv_vars, batch_vars, calls >>

(***************************************************************************)
(* convert_aistudio_to_openwebui, expression by expression.                *)
(***************************************************************************)
\* A slip: the chunk list is looked up at the top level of the document.
ChunksAtTopLevel(data) == Get(data, "chunks", <<>>)

\* The chunk list of a document.
Chunks(data) == Get(Get(data, "chunkedPrompt", <<>>), "chunks", <<>>)

\* A slip: a chunk without the flag counts as a thought chunk.
IsThoughtByDefault(chunk) == Get(chunk, "isThought", TRUE)

\* Whether the loop treats a chunk as a thought chunk.
IsThought(chunk) == Get(chunk, "isThought", FALSE)

\* [part.get("text", "") for part in thought_parts if part.get("thought", False)]
ThoughtTexts(thought_parts) ==
    LET flagged == SelectSeq(thought_parts, LAMBDA part : Get(part, "thought", FALSE))
    IN  [k \in 1..Len(flagged) |-> Get(flagged[k], "text", "")]

\* A slip: the parts replace the flat text whenever there are parts, also
\* when none of them is flagged.
ThoughtContentPartsOnly(chunk) ==
    IF Get(chunk, "parts", <<>>) # <<>>
    THEN Join("\n\n", ThoughtTexts(Get(chunk, "parts", <<>>)))
    ELSE Get(chunk, "text", "")

\* The text a thought chunk appends to pending_thoughts.
ThoughtContent(chunk) ==
    LET thought_content == Get(chunk, "text", "")
        thought_parts == Get(chunk, "parts", <<>>)
        thought_texts == ThoughtTexts(thought_parts)
    IN  IF thought_parts # <<>> /\ thought_texts # <<>>
        THEN Join("\n\n", thought_texts)
        ELSE thought_content

\* A slip: every chunk that is not a "model" chunk becomes a user message.
RoleUnlessModel(chunk) ==
    IF Get(chunk, "role", None) = "model" THEN "assistant" ELSE "user"

\* The role of the message a turn chunk becomes.
Role(chunk) == IF Get(chunk, "role", None) = "user" THEN "user" ELSE "assistant"

\* The rendered reasoning block of the pending thoughts.
ThoughtSection(pending) ==
    "<details type=\"reasoning\" done=\"true\" duration=\"5\">\n<summary>Thought for 5 seconds</summary>\n"
    \o Join("\n\n", pending) \o "\n</details>\n\n"

\* A slip: a turn chunk of any role takes the pending thoughts.
ConsumesThoughtsAnyRole(role, pending) == pending # <<>>

\* Whether a turn chunk of this role consumes the pending thoughts.
ConsumesThoughts(role, pending) == role = "assistant" /\ pending # <<>>

\* The content of the message a turn chunk becomes.
Content(chunk, role, pending) ==
    IF ConsumesThoughts(role, pending)
    THEN ThoughtSection(pending) \o Get(chunk, "text", "")
    ELSE Get(chunk, "text", "")

\* A slip: the pending thoughts are rendered but never cleared.
PendingAfterTurnKept(role, pending) == pending

\* pending_thoughts after a turn chunk.
PendingAfterTurn(role, pending) ==
    IF ConsumesThoughts(role, pending) THEN <<>> ELSE pending

\* The model identifier of the run configuration.
Model(data) == Get(Get(data, "runSettings", <<>>), "model", "unknown")

\* A slip: the message index is left out of the timestamp.
TimestampUnindexed(base, index) == base

\* The timestamp of the message created at message index `index`.
Timestamp(base, index) == base + index

\* The message dict of a turn chunk.
Message(message_id, parent, role, content, timestamp, data) ==
    LET message == [id |-> message_id, parentId |-> parent, childrenIds |-> <<>>,
                    role |-> role, content |-> content, timestamp |-> timestamp]
    IN  IF role = "assistant"
        THEN message @@ [model |-> Model(data),
                         modelName |-> "Converted from AIStudio",
                         modelIdx |-> 0, done |-> TRUE]
        ELSE message

\* dict[key] = ref.
DictSet(dict, key, ref) ==
    [k \in DOMAIN dict \cup {key} |-> IF k = key THEN ref ELSE dict[k]]

\* A slip: the dict is rebound to hold the new message alone.
InsertMessageAlone(dict, message_id, ref) == [k \in {message_id} |-> ref]

\* messages[message_id] = message.
InsertMessage(dict, message_id, ref) == DictSet(dict, message_id, ref)

\* messages_list.append(message).
AppendMessage(list, ref) == Append(list, ref)

\* A slip: the new message is recorded as a child of itself.
LinkChildToSelf(objects, dict, parent, message_id) ==
    IF Truthy(parent) /\ parent \in DOMAIN dict
    THEN [objects EXCEPT ![dict[message_id]].childrenIds = Append(@, message_id)]
    ELSE objects

\* The heap after messages[parent_id]["childrenIds"].append(message_id), which
\* runs only if parent_id is set and is a key of messages.
LinkChild(objects, dict, parent, message_id) ==
    IF Truthy(parent) /\ parent \in DOMAIN dict
    THEN [objects EXCEPT ![dict[parent]].childrenIds = Append(@, message_id)]
    ELSE objects

\* Line 55 raises TypeError: str.join meets an item that is no str.
ThoughtRaises(chunk) ==
    LET thought_parts == Get(chunk, "parts", <<>>)
        thought_texts == ThoughtTexts(thought_parts)
    IN  /\ thought_parts # <<>>
        /\ thought_texts # <<>>
        /\ \E k \in 1..Len(thought_texts) : ~IsStr(thought_texts[k])

\* Line 73 or line 76 raises TypeError: str.join meets a pending thought that
\* is no str, or the reasoning block is added to a text that is no str.
TurnRaises(chunk, pending) ==
    /\ ConsumesThoughts(Role(chunk), pending)
    /\ \/ \E k \in 1..Len(pending) : ~IsStr(pending[k])
       \/ ~IsStr(Get(chunk, "text", ""))

\* Line 117 raises TypeError: len() of a content that is a number or None.
TitleRaises(hint, objects, list) ==
    /\ ~Truthy(hint)
    /\ list # <<>>
    /\ objects[list[1]].role = "user"
    /\ ~IsStr(objects[list[1]].content)

\* A slip: a thought that follows a message is added to that message's
\* content instead of the buffer.
ThoughtStepIntoLast(loc, chunk) ==
    IF loc.messages_list = <<>>
    THEN [loc EXCEPT !.pending_thoughts = Append(@, ThoughtContent(chunk))]
    ELSE [loc EXCEPT !.heap[loc.messages_list[Len(loc.messages_list)]].content =
                        @ \o ThoughtContent(chunk)]

\* The locals after the loop body has run on a thought chunk.
ThoughtStep(loc, chunk) ==
    [loc EXCEPT !.pending_thoughts = Append(@, ThoughtContent(chunk))]

\* The locals after the loop body has run on a turn chunk, uuid4() having
\* returned message_id.
TurnStep(loc, chunk, message_id, data) ==
    LET role == Role(chunk)
        content == Content(chunk, role, loc.pending_thoughts)
        message == Message(message_id, loc.parent_id, role, content,
                           Timestamp(loc.base_timestamp, loc.message_index), data)
        ref == Len(loc.heap) + 1
        dict == InsertMessage(loc.messages, message_id, ref)
    IN  [heap |-> LinkChild(Append(loc.heap, message), dict, loc.parent_id, message_id),
         messages |-> dict,
         messages_list |-> AppendMessage(loc.messages_list, ref),
         parent_id |-> message_id,
         pending_thoughts |-> PendingAfterTurn(role, loc.pending_thoughts),
         message_index |-> loc.message_index + 1,
         base_timestamp |-> loc.base_timestamp]

\* A slip: a first message of exactly 50 characters is truncated too.
TitleOffByOne(hint, objects, list) ==
    IF Truthy(hint)
    THEN SplitextRoot(Basename(hint))
    ELSE IF list # <<>> /\ objects[list[1]].role = "user"
         THEN LET content == objects[list[1]].content
              IN  IF Len(content) >= 50 THEN Prefix(content, 50) \o "..." ELSE content
         ELSE "AIStudio Conversation"

\* The chat title.
Title(hint, objects, list) ==
    IF Truthy(hint)
    THEN SplitextRoot(Basename(hint))
    ELSE IF list # <<>> /\ objects[list[1]].role = "user"
         THEN LET content == objects[list[1]].content
              IN  IF Len(content) > 50 THEN Prefix(content, 50) \o "..." ELSE content
         ELSE "AIStudio Conversation"

\* A slip: the head pointer names the first message, not the last.
CurrentIdOfFirst(loc) ==
    IF loc.messages_list = <<>> THEN None ELSE loc.heap[loc.messages_list[1]].id

\* history.currentId of the returned record.
CurrentId(loc) == loc.parent_id

\* The returned chat record.  Its two message collections hold references
\* into the heap.
OpenWebUIChat(loc, data, hint) ==
    LET title == Title(hint, loc.heap, loc.messages_list)
    IN  [id |-> ChatUuid,
         user_id |-> UserUuid,
         title |-> title,
         chat |-> [id |-> "",
                   title |-> title,
                   models |-> << Model(data) >>,
                   params |-> <<>>,
                   history |-> [messages |-> loc.messages,
                                currentId |-> CurrentId(loc)],
                   messages |-> loc.messages_list,
                   tags |-> <<>>,
                   timestamp |-> loc.base_timestamp,
                   files |-> <<>>],
         updated_at |-> loc.base_timestamp,
         created_at |-> loc.base_timestamp,
         archived |-> FALSE,
         pinned |-> FALSE,
         meta |-> [tags |-> << "aistudio", "converted" >>]]

(***************************************************************************)
(* The conversion as a state machine.                                      *)
(***************************************************************************)
\* The locals of the running call, as one record.
Locals ==
    [heap |-> heap, messages |-> messages, messages_list |-> messages_list,
     parent_id |-> parent_id, pending_thoughts |-> pending_thoughts,
     message_index |-> message_index, base_timestamp |-> base_timestamp]

SetLocals(loc) ==
    /\ heap' = loc.heap
    /\ messages' = loc.messages
    /\ messages_list' = loc.messages_list
    /\ parent_id' = loc.parent_id
    /\ pending_thoughts' = loc.pending_thoughts
    /\ message_index' = loc.message_index
    /\ base_timestamp' = loc.base_timestamp

\* The locals as lines 29-42 initialise them, the clock showing `now`.
InitialLocals(now) ==
    [heap |-> <<>>, messages |-> <<>>, messages_list |-> <<>>,
     parent_id |-> None, pending_thoughts |-> <<>>,
     message_index |-> 0, base_timestamp |-> now]

\* The call, on one of these documents with one of these title hints.
ConvStart(documents, hints) ==
    /\ aistudio_data \in documents
    /\ filename \in hints
    /\ pc = "start"
    /\ i = 0
    /\ heap = <<>>
    /\ messages = <<>>
    /\ messages_list = <<>>
    /\ parent_id = None
    /\ pending_thoughts = <<>>
    /\ message_index = 0
    /\ base_timestamp = 0
    /\ result = None
    /\ uuids \in UuidStreams

\* `if not chunks: return []`.
ReturnEmpty ==
    /\ pc = "start"
    /\ Chunks(aistudio_data) = <<>>
    /\ pc' = "done"
    /\ result' = <<>>
    /\ UNCHANGED << aistudio_data, filename, i, heap, messages, messages_list,
                    parent_id, pending_thoughts, message_index, base_timestamp,
                    uuids >>
    /\ UNCHANGED << batch_vars, calls >>

\* The initialisation of the locals, with the one read of the clock.
Begin ==
    /\ pc = "start"
    /\ Chunks(aistudio_data) # <<>>
    /\ \E now \in ClockValues : SetLocals(InitialLocals(now))
    /\ pc' = "loop"
    /\ i' = 0
    /\ UNCHANGED << aistudio_data, filename, result, uuids >>
    /\ UNCHANGED << batch_vars, calls >>

\* One iteration of the loop on a thought chunk.
ProcessThoughtChunk ==
    /\ pc = "loop"
    /\ i < Len(Chunks(aistudio_data))
    /\ LET chunk == Chunks(aistudio_data)[i + 1]
       IN  /\ IsThought(chunk)
           /\ ~ThoughtRaises(chunk)
           /\ SetLocals(ThoughtStep(Locals, chunk))
    /\ i' = i + 1
    /\ UNCHANGED << aistudio_data, filename, pc, result, uuids >>
    /\ UNCHANGED << batch_vars, calls >>

\* One iteration of the loop on a turn chunk.
ProcessTurnChunk ==
    /\ pc = "loop"
    /\ i < Len(Chunks(aistudio_data))
    /\ LET chunk == Chunks(aistudio_data)[i + 1]
       IN  /\ ~IsThought(chunk)
           /\ ~TurnRaises(chunk, pending_thoughts)
           /\ SetLocals(TurnStep(Locals, chunk, Head(uuids), aistudio_data))
    /\ uuids' = Tail(uuids)
    /\ i' = i + 1
    /\ UNCHANGED << aistudio_data, filename, pc, result >>
    /\ UNCHANGED << batch_vars, calls >>

\* After the loop: the title, the record, the return.
Finish ==
    /\ pc = "loop"
    /\ i = Len(Chunks(aistudio_data))
    /\ ~TitleRaises(filename, heap, messages_list)
    /\ pc' = "done"
    /\ result' = << OpenWebUIChat(Locals, aistudio_data, filename) >>
    /\ UNCHANGED << aistudio_data, filename, i, heap, messages, messages_list,
                    parent_id, pending_thoughts, message_index, base_timestamp,
                    uuids >>
    /\ UNCHANGED << batch_vars, calls >>

\* The call ends with an uncaught TypeError: it returns nothing, and what
\* its locals held is lost.
Raise ==
    /\ pc' = "raised"
    /\ UNCHANGED << aistudio_data, filename, i, heap, messages, messages_list,
                    parent_id, pending_thoughts, message_index, base_timestamp,
                    result >>
    /\ UNCHANGED << batch_vars, calls >>

\* The loop body raises on a thought chunk.
RaiseInThought ==
    /\ pc = "loop"
    /\ i < Len(Chunks(aistudio_data))
    /\ LET chunk == Chunks(aistudio_data)[i + 1]
       IN  IsThought(chunk) /\ ThoughtRaises(chunk)
    /\ Raise
    /\ UNCHANGED uuids

\* The loop body raises on a turn chunk, uuid4() having returned.
RaiseInTurn ==
    /\ pc = "loop"
    /\ i < Len(Chunks(aistudio_data))
    /\ LET chunk == Chunks(aistudio_data)[i + 1]
       IN  ~IsThought(chunk) /\ TurnRaises(chunk, pending_thoughts)
    /\ Raise
    /\ uuids' = Tail(uuids)

\* The title raises after the loop.
RaiseInTitle ==
    /\ pc = "loop"
    /\ i = Len(Chunks(aistudio_data))
    /\ TitleRaises(filename, heap, messages_list)
    /\ Raise
    /\ UNCHANGED uuids

(***************************************************************************)
(* A whole call of convert_aistudio_to_openwebui, as process_file makes it.*)
(***************************************************************************)
\* The loop over a chunk list.  The k-th call of uuid4() returns the k-th
\* token and the result names no other token, so the choice of tokens does
\* not show in what process_file does with the result.
RECURSIVE Loop(_, _, _)
Loop(loc, chunks, data) ==
    IF chunks = <<>> THEN loc
    ELSE LET chunk == Head(chunks)
             message_id == Uuid(loc.message_index + 1)
         IN  Loop(IF IsThought(chunk)
                  THEN ThoughtStep(loc, chunk)
                  ELSE TurnStep(loc, chunk, message_id, data),
                  Tail(chunks), data)

\* The returned list with every reference replaced by the message it refers
\* to: what json.dump writes.
Dump(records, objects) ==
    [r \in 1..Len(records) |->
        [records[r] EXCEPT
            !.chat.history.messages = [k \in DOMAIN @ |-> objects[@[k]]],
            !.chat.messages = [j \in 1..Len(@) |-> objects[@[j]]]]]

\* json.dump(convert_aistudio_to_openwebui(data, hint)), the clock showing now.
Convert(data, hint, now) ==
    IF Chunks(data) = <<>> THEN <<>>
    ELSE LET loc == Loop(InitialLocals(now), Chunks(data), data)
         IN  Dump(<< OpenWebUIChat(loc, data, hint) >>, loc.heap)

(***************************************************************************)
(* The file system and the command line.                                   *)
(***************************************************************************)
\* What a path of the input can be: a file that cannot be opened or decoded,
\* a file that is not JSON, a JSON file holding an array, a JSON file holding
\* a document, or a directory.
DocumentWithTurns ==
    [chunkedPrompt |-> [chunks |-> << ChunkUser, ThoughtFlat, ChunkModel >>]]
Files ==
    { [kind |-> "unreadable"], [kind |-> "unparsable"], [kind |-> "array"],
      [kind |-> "document", data |-> DocumentWithTurns] }
Directory == [kind |-> "dir"]

\* The names an entry of the input directory can have.
Names == {"a", "a.json", "b.json", "c"}

\* What os.listdir can return: up to MaxEntries entries with distinct names,
\* in any order, each a file or a directory.
Listings ==
    UNION { { es \in [1..n -> [name : Names, file : Files \cup {Directory}]] :
                \A x, y \in 1..n : x # y => es[x].name # es[y].name } :
            n \in 0..MaxEntries }

\* The input path: missing, a file, or a directory with its entries.
InputPaths ==
    { [kind |-> "missing"] }
    \cup { [kind |-> "file", file |-> f] : f \in Files }
    \cup { [kind |-> "dir", entries |-> es] : es \in Listings }

\* How writing an output file can end: open() fails, json.dump fails after
\* open() has created or truncated the file, or the file is written whole.
WriteOutcomes == {"open_fails", "dump_fails", "written"}

\* The name of the output file in single-file mode.
SingleOutput == "out.json"

(***************************************************************************)
(* process_file, process_directory and main.                               *)
(***************************************************************************)
\* Whether process_file gets as far as opening the output file: the input
\* opens and decodes, parses as JSON, and the conversion does not raise.
Converts(file) == file.kind = "document"

\* process_file(input_path, output_path): what it returns, the files of the
\* output path afterwards, and the line it prints.  `name` is
\* os.path.basename(input_path).
ProcessFile(file, name, output_name, outs, write, now) ==
    IF ~Converts(file) \/ write = "open_fails"
    THEN [ok |-> FALSE, outputs |-> outs, line |-> << "Error converting", name >>]
    ELSE IF write = "dump_fails"
    THEN [ok |-> FALSE,
          outputs |-> DictSet(outs, output_name,
                              [complete |-> FALSE, from |-> name]),
          line |-> << "Error converting", name >>]
    ELSE [ok |-> TRUE,
          outputs |-> DictSet(outs, output_name,
                              [complete |-> TRUE, from |-> name,
                               data |-> Convert(file.data, name, now)]),
          line |-> << "Successfully converted", name >>]

\* A slip: a file counts as a success as soon as it has been attempted.
TallyAttempts(ok, successes, errors) ==
    [success_count |-> successes + 1,
     error_count |-> IF ok THEN errors ELSE errors + 1]

\* The two counters after process_file has returned ok.
Tally(ok, successes, errors) ==
    IF ok THEN [success_count |-> successes + 1, error_count |-> errors]
    ELSE [success_count |-> successes, error_count |-> errors + 1]

\* The output file name of a directory entry.
OutputFilename(name) == IF EndsWith(name, ".json") THEN name ELSE name \o ".json"

\* The program starts: any command line, any input path.
BatchInit ==
    /\ args \in [batch : BOOLEAN]
    /\ input \in InputPaths
    /\ bpc = "main"
    /\ listing = <<>>
    /\ entry = 0
    /\ success_count = 0
    /\ error_count = 0
    /\ outputs = <<>>
    /\ stdout = <<>>

\* main selects batch mode.
MainBatch ==
    /\ bpc = "main"
    /\ args.batch \/ input.kind = "dir"
    /\ bpc' = "makedirs"
    /\ UNCHANGED << args, input, listing, entry, success_count, error_count,
                    outputs, stdout >>
    /\ UNCHANGED << conv_vars, calls >>

\* main selects single-file mode and process_file runs.
MainSingle ==
    /\ bpc = "main"
    /\ ~(args.batch \/ input.kind = "dir")
    /\ \E write \in WriteOutcomes, now \in ClockValues :
         LET file == IF input.kind = "file" THEN input.file
                     ELSE [kind |-> "unreadable"]
             done == ProcessFile(file, "input", SingleOutput, outputs, write, now)
         IN  /\ outputs' = done.outputs
             /\ stdout' = Append(stdout, done.line)
    /\ bpc' = "exit"
    /\ UNCHANGED << args, input, listing, entry, success_count, error_count >>
    /\ UNCHANGED << conv_vars, calls >>

\* os.makedirs(output_dir, exist_ok=True) succeeds.
MakeDirs ==
    /\ bpc = "makedirs"
    /\ bpc' = "listdir"
    /\ UNCHANGED << args, input, listing, entry, success_count, error_count,
                    outputs, stdout >>
    /\ UNCHANGED << conv_vars, calls >>

\* os.makedirs raises (the output path is a file, or may not be created).
MakeDirsRaises ==
    /\ bpc = "makedirs"
    /\ bpc' = "raised"
    /\ UNCHANGED << args, input, listing, entry, success_count, error_count,
                    outputs, stdout >>
    /\ UNCHANGED << conv_vars, calls >>

\* os.listdir(input_dir) returns the entries of the directory.
ListDir ==
    /\ bpc = "listdir"
    /\ input.kind = "dir"
    /\ listing' = input.entries
    /\ entry' = 0
    /\ success_count' = 0
    /\ error_count' = 0
    /\ bpc' = "loop"
    /\ UNCHANGED << args, input, outputs, stdout >>
    /\ UNCHANGED << conv_vars, calls >>

\* os.listdir(input_dir) raises: the input path is no directory.
ListDirRaises ==
    /\ bpc = "listdir"
    /\ input.kind # "dir"
    /\ bpc' = "raised"
    /\ UNCHANGED << args, input, listing, entry, success_count, error_count,
                    outputs, stdout >>
    /\ UNCHANGED << conv_vars, calls >>

\* One iteration of the loop on an entry that is a directory.
SkipDirectory ==
    /\ bpc = "loop"
    /\ entry < Len(listing)
    /\ listing[entry + 1].file.kind = "dir"
    /\ entry' = entry + 1
    /\ UNCHANGED << args, input, bpc, listing, success_count, error_count,
                    outputs, stdout >>
    /\ UNCHANGED << conv_vars, calls >>

\* One iteration of the loop on any other entry.
ProcessEntry ==
    /\ bpc = "loop"
    /\ entry < Len(listing)
    /\ listing[entry + 1].file.kind # "dir"
    /\ \E write \in WriteOutcomes, now \in ClockValues :
         LET name == listing[entry + 1].name
             done == ProcessFile(listing[entry + 1].file, name,
                                 OutputFilename(name), outputs, write, now)
         IN  /\ outputs' = done.outputs
             /\ stdout' = Append(stdout, done.line)
             /\ success_count' = Tally(done.ok, success_count, error_count).success_count
             /\ error_count' = Tally(done.ok, success_count, error_count).error_count
    /\ entry' = entry + 1
    /\ UNCHANGED << args, input, bpc, listing >>
    /\ UNCHANGED << conv_vars, calls >>

\* After the loop: the tally is printed.
Report ==
    /\ bpc = "loop"
    /\ entry = Len(listing)
    /\ stdout' = Append(stdout, << "Conversion complete", success_count, error_count >>)
    /\ bpc' = "exit"
    /\ UNCHANGED << args, input, listing, entry, success_count, error_count,
                    outputs >>
    /\ UNCHANGED << conv_vars, calls >>

\* No program run is under way.
BatchIdle ==
    /\ args = [batch |-> FALSE]
    /\ input = [kind |-> "missing"]
    /\ bpc = "idle"
    /\ listing = <<>>
    /\ entry = 0
    /\ success_count = 0
    /\ error_count = 0
    /\ outputs = <<>>
    /\ stdout = <<>>

\* No call of the conversion is under way on its own.
ConvIdle ==
    /\ aistudio_data = [app |-> "aistudio"]
    /\ filename = None
    /\ pc = "idle"
    /\ i = 0
    /\ heap = <<>>
    /\ messages = <<>>
    /\ messages_list = <<>>
    /\ parent_id = None
    /\ pending_thoughts = <<>>
    /\ message_index = 0
    /\ base_timestamp = 0
    /\ result = None
    /\ uuids = <<>>

(***************************************************************************)
(* Calls of convert_aistudio_to_openwebui made side by side.  Each call    *)
(* has a frame of its own, which holds its arguments and its locals; a     *)
(* step of a call is one statement block of the function (the early        *)
(* return, the initialisation, one iteration of the loop, the return), and *)
(* the steps of different calls interleave in any order, one call after    *)
(* the other included.  The calls have uuid.uuid4() and the clock in       *)
(* common, and nothing else: the function reads and writes no global.      *)
(***************************************************************************)
\* The frame of a call that has not begun.
NewFrame(data, hint) ==
    [data |-> data, hint |-> hint, pc |-> "start", i |-> 0,
     loc |-> InitialLocals(0), result |-> None]

\* A slip: pending_thoughts is one module-level list that every call
\* appends to and rebinds.
SetFrameSharedThoughts(frames, c, frame) ==
    [k \in DOMAIN frames |->
        IF k = c THEN frame
        ELSE [frames[k] EXCEPT
                 !.loc.pending_thoughts = frame.loc.pending_thoughts]]

\* The frames after a step of call c that leaves its frame as `frame`.
SetFrame(frames, c, frame) == [frames EXCEPT ![c] = frame]

\* The number of messages the first n frames hold: the number of values
\* uuid4() has returned for messages.
RECURSIVE MessagesIn(_, _)
MessagesIn(frames, n) ==
    IF n = 0 THEN 0 ELSE Len(frames[n].loc.heap) + MessagesIn(frames, n - 1)

\* What uuid4() returns to a call: a value that no call has been given, the
\* first token that is the ID of no message of any frame.
FreshUuid(frames) == Uuid(MessagesIn(frames, Len(frames)) + 1)

\* `if not chunks: return []` in call c.
CallReturnEmpty(c) ==
    /\ calls[c].pc = "start"
    /\ Chunks(calls[c].data) = <<>>
    /\ calls' = SetFrame(calls, c, [calls[c] EXCEPT !.pc = "done", !.result = <<>>])
    /\ UNCHANGED << conv_vars, batch_vars >>

\* The initialisation of the locals of call c.
CallBegin(c) ==
    /\ calls[c].pc = "start"
    /\ Chunks(calls[c].data) # <<>>
    /\ \E now \in ClockValues :
         calls' = SetFrame(calls, c, [calls[c] EXCEPT !.pc = "loop", !.i = 0,
                                                      !.loc = InitialLocals(now)])
    /\ UNCHANGED << conv_vars, batch_vars >>

\* One iteration of the loop of call c on a thought chunk.
CallThoughtChunk(c) ==
    /\ calls[c].pc = "loop"
    /\ calls[c].i < Len(Chunks(calls[c].data))
    /\ LET chunk == Chunks(calls[c].data)[calls[c].i + 1]
       IN  /\ IsThought(chunk)
           /\ calls' = SetFrame(calls, c,
                  [calls[c] EXCEPT !.i = @ + 1,
                                   !.loc = ThoughtStep(calls[c].loc, chunk)])
    /\ UNCHANGED << conv_vars, batch_vars >>

\* One iteration of the loop of call c on a turn chunk.
CallTurnChunk(c) ==
    /\ calls[c].pc = "loop"
    /\ calls[c].i < Len(Chunks(calls[c].data))
    /\ LET chunk == Chunks(calls[c].data)[calls[c].i + 1]
       IN  /\ ~IsThought(chunk)
           /\ calls' = SetFrame(calls, c,
                  [calls[c] EXCEPT !.i = @ + 1,
                                   !.loc = TurnStep(calls[c].loc, chunk,
                                                    FreshUuid(calls), calls[c].data)])
    /\ UNCHANGED << conv_vars, batch_vars >>

\* After the loop of call c: the title, the record, the return.
CallFinish(c) ==
    /\ calls[c].pc = "loop"
    /\ calls[c].i = Len(Chunks(calls[c].data))
    /\ calls' = SetFrame(calls, c,
           [calls[c] EXCEPT !.pc = "done",
                            !.result = << OpenWebUIChat(calls[c].loc, calls[c].data,
                                                        calls[c].hint) >>])
    /\ UNCHANGED << conv_vars, batch_vars >>

\* No calls are made side by side.
CallsIdle == calls = <<>>

\* MaxCalls calls, each with any of these arguments.
CallsStart ==
    calls \in [1..MaxCalls -> {NewFrame(arguments[1], arguments[2]) :
                                 arguments \in PairArguments}]

(***************************************************************************)
(* The specifications: one call of the conversion on any document, and one *)
(* run of the program on any input path.                                   *)
(***************************************************************************)
Init == ConvStart(Documents, Filenames) /\ BatchIdle /\ CallsIdle

Next == ReturnEmpty \/ Begin \/ ProcessThoughtChunk \/ ProcessTurnChunk \/ Finish

Spec == Init /\ [][Next]_vars

\* One call of the conversion on a document whose first chunk is any thought
\* chunk of up to MaxParts parts.
ThoughtInit == ConvStart(ThoughtDocuments, {None}) /\ BatchIdle /\ CallsIdle

ThoughtSpec == ThoughtInit /\ [][Next]_vars

\* One call of the conversion on a document with any first message, with any
\* title hint.
TitleInit == ConvStart(TitleDocuments, TitleFilenames) /\ BatchIdle /\ CallsIdle

TitleSpec == TitleInit /\ [][Next]_vars

\* One call of the conversion on a document whose scalar fields may be of a
\* mismatched kind.
LooseInit == ConvStart(LooseDocuments, Filenames) /\ BatchIdle /\ CallsIdle

LooseNext == Next \/ RaiseInThought \/ RaiseInTurn \/ RaiseInTitle

LooseSpec == LooseInit /\ [][LooseNext]_vars

\* MaxCalls calls of the conversion, their steps interleaved in any order.
PairInit == ConvIdle /\ BatchIdle /\ CallsStart

PairNext ==
    \/ \E c \in DOMAIN calls : CallReturnEmpty(c)
    \/ \E c \in DOMAIN calls : CallBegin(c)
    \/ \E c \in DOMAIN calls : CallThoughtChunk(c)
    \/ \E c \in DOMAIN calls : CallTurnChunk(c)
    \/ \E c \in DOMAIN calls : CallFinish(c)

PairSpec == PairInit /\ [][PairNext]_vars

BatchNext ==
    \/ MainBatch \/ MainSingle \/ MakeDirs \/ MakeDirsRaises \/ ListDir
    \/ ListDirRaises \/ SkipDirectory \/ ProcessEntry \/ Report

BatchStart == ConvIdle /\ BatchInit /\ CallsIdle

BatchSpec == BatchStart /\ [][BatchNext]_vars

\* The same run, which does not stop while it has a step to take: the
\* interpreter executes the next statement of a running program.
BatchLiveSpec == BatchStart /\ [][BatchNext]_vars /\ WF_vars(BatchNext)

(***************************************************************************)
(* What the properties below are stated in: the source document as the     *)
(* specification describes it, read off the argument and not off the       *)
(* locals of the call.                                                     *)
(***************************************************************************)
\* The chunk list of the source document (empty when there is none).
SourceChunks ==
    IF /\ "chunkedPrompt" \in DOMAIN aistudio_data
       /\ "chunks" \in DOMAIN aistudio_data.chunkedPrompt
    THEN aistudio_data.chunkedPrompt.chunks
    ELSE <<>>

\* Chunk k of the source is flagged as a thought chunk.
Flagged(k) ==
    "isThought" \in DOMAIN SourceChunks[k] /\ SourceChunks[k].isThought

\* The positions of the turn chunks among the first n chunks.
TurnPositions(n) == {k \in 1..n : ~Flagged(k)}

\* The position of the j-th turn chunk of the source.
TurnPosition(j) ==
    CHOOSE k \in TurnPositions(Len(SourceChunks)) :
        Cardinality(TurnPositions(k)) = j

\* The text field of chunk k ("" when absent).
SourceText(k) ==
    IF "text" \in DOMAIN SourceChunks[k] THEN SourceChunks[k].text ELSE ""

\* Chunk k is a turn chunk whose role field is exactly "user".
UserTurn(k) ==
    /\ ~Flagged(k)
    /\ "role" \in DOMAIN SourceChunks[k]
    /\ SourceChunks[k].role = "user"

\* Chunk k is a turn chunk that becomes an assistant message.
AssistantTurn(k) == ~Flagged(k) /\ ~UserTurn(k)

\* The position of the last assistant turn chunk before position k (0: none).
LastAssistantBefore(k) ==
    LET before == {p \in 1..(k - 1) : AssistantTurn(p)}
    IN  IF before = {} THEN 0 ELSE CHOOSE p \in before : \A q \in before : q <= p

\* The thought texts of the thought chunks at positions lo..hi, in order.
RECURSIVE ThoughtsBetween(_, _)
ThoughtsBetween(lo, hi) ==
    IF lo > hi THEN <<>>
    ELSE IF Flagged(hi)
         THEN Append(ThoughtsBetween(lo, hi - 1), ThoughtContent(SourceChunks[hi]))
         ELSE ThoughtsBetween(lo, hi - 1)

\* The thoughts an assistant message made of chunk k has to carry.
ThoughtsOwedTo(k) == ThoughtsBetween(LastAssistantBefore(k) + 1, k - 1)

\* The j-th message of the list, and the number of messages.
MessageAt(j) == heap[messages_list[j]]
MessageCount == Len(messages_list)

\* The loop is running or has run: the locals hold what i chunks produced.
InLoop == pc = "loop" \/ (pc = "done" /\ result # <<>>)

\* The call has returned a record.
Returned == pc = "done" /\ result # <<>>

\* The fixed reasoning template around a text.
ReasoningBlock(text) ==
    "<details type=\"reasoning\" done=\"true\" duration=\"5\">\n"
    \o "<summary>Thought for 5 seconds</summary>\n"
    \o text \o "\n</details>"

\* The content an assistant message made of chunk k has to have.
C1_ExpectedContent(k) ==
    IF ThoughtsOwedTo(k) # <<>>
    THEN ReasoningBlock(Join("\n\n", ThoughtsOwedTo(k))) \o "\n\n" \o SourceText(k)
    ELSE SourceText(k)

(***************************************************************************)
(* C1.  Every assistant message carries exactly the thoughts buffered      *)
(* since the previous assistant message: if there are any, its content is  *)
(* the reasoning template around their texts joined by a blank line, a     *)
(* blank line, and the chunk's own text; if there are none, its content is *)
(* the chunk's text.  The buffer holds exactly the thoughts no assistant   *)
(* message has taken yet, so it is empty right after an assistant message  *)
(* and no thought is rendered twice.                                       *)
(***************************************************************************)
C1_ThoughtsRenderedOnce ==
    InLoop =>
        /\ \A j \in 1..MessageCount :
              AssistantTurn(TurnPosition(j)) =>
                  MessageAt(j).content = C1_ExpectedContent(TurnPosition(j))
        /\ pending_thoughts = ThoughtsBetween(LastAssistantBefore(i + 1) + 1, i)

\* Two thoughts went into the first assistant message and the assistant
\* message after it is plain.
C1_Witness ==
    /\ InLoop
    /\ MessageCount = 2
    /\ i = 3
    /\ Flagged(1)
    /\ AssistantTurn(2) /\ AssistantTurn(3)
    /\ MessageAt(1).content = ReasoningBlock("p1\n\np2") \o "\n\nSure."
    /\ MessageAt(2).content = "Sure."
    /\ pending_thoughts = <<>>

(***************************************************************************)
(* C2.  Linear chain: the first message has no parent, every other message *)
(* has the message before it in the list as its parent and is the one and  *)
(* only child of that message, and the last message has no child; so no    *)
(* message has more than one child.  This holds after every chunk and in   *)
(* the returned record.                                                    *)
(***************************************************************************)
C2_LinearChain ==
    InLoop =>
        /\ \A j \in 1..MessageCount :
              /\ MessageAt(j).parentId = IF j = 1 THEN None ELSE MessageAt(j - 1).id
              /\ MessageAt(j).childrenIds =
                    IF j = MessageCount THEN <<>> ELSE << MessageAt(j + 1).id >>
              /\ Len(MessageAt(j).childrenIds) <= 1
        /\ Returned => result[1].chat.messages = messages_list

\* A chain of three messages has been built.
C2_Witness ==
    /\ InLoop
    /\ MessageCount = 3
    /\ MessageAt(2).parentId = MessageAt(1).id
    /\ MessageAt(2).childrenIds = << MessageAt(3).id >>
    /\ MessageAt(3).childrenIds = <<>>

\* The message objects the list refers to.
C3_ListObjects == {messages_list[j] : j \in 1..MessageCount}

(***************************************************************************)
(* C3.  Map/list consistency: at every step of the loop and in the         *)
(* returned record, the keys of history.messages are the IDs of the        *)
(* messages of the list, every key maps to the message that carries it,    *)
(* and the map and the list hold the very same message objects.            *)
(***************************************************************************)
C3_MapListConsistent ==
    InLoop =>
        /\ DOMAIN messages = {heap[ref].id : ref \in C3_ListObjects}
        /\ \A key \in DOMAIN messages : heap[messages[key]].id = key
        /\ {messages[key] : key \in DOMAIN messages} = C3_ListObjects
        /\ Cardinality(C3_ListObjects) = MessageCount
        /\ Returned =>
              /\ result[1].chat.history.messages = messages
              /\ result[1].chat.messages = messages_list

\* A record with two messages has been returned.
C3_Witness ==
    /\ Returned
    /\ Len(result[1].chat.messages) = 2
    /\ Cardinality(DOMAIN result[1].chat.history.messages) = 2

\* Message j carries the role and the text of turn chunk k.
C4_MadeOf(j, k) ==
    /\ MessageAt(j).role = (IF UserTurn(k) THEN "user" ELSE "assistant")
    /\ EndsWith(MessageAt(j).content, SourceText(k))
    /\ UserTurn(k) => MessageAt(j).content = SourceText(k)

(***************************************************************************)
(* C4.  One message per turn chunk, in chunk order: after i chunks the     *)
(* list has one message for each turn chunk among them, the j-th message   *)
(* made of the j-th turn chunk (its role and its text), and thought chunks *)
(* add none; a source that ends with a thought chunk still returns its     *)
(* record.                                                                 *)
(***************************************************************************)
C4_OneMessagePerTurnChunk ==
    /\ InLoop =>
          /\ MessageCount = Cardinality(TurnPositions(i))
          /\ \A j \in 1..MessageCount : C4_MadeOf(j, TurnPosition(j))
    /\ pc = "done" /\ SourceChunks # <<>> =>
          /\ Len(result) = 1
          /\ Len(result[1].chat.messages) =
                Cardinality(TurnPositions(Len(SourceChunks)))

\* A source of a user turn, an assistant turn and a trailing thought chunk
\* has returned a record of two messages.
C4_Witness ==
    /\ Returned
    /\ Len(SourceChunks) = 3
    /\ UserTurn(1) /\ AssistantTurn(2) /\ Flagged(3)
    /\ Len(result[1].chat.messages) = 2
    /\ pending_thoughts # <<>>

(***************************************************************************)
(* C5.  The call returns the empty list when the source has no chunks (an  *)
(* empty chunk list or none at all) and a list of exactly one record       *)
(* otherwise, also when every chunk is a thought chunk: that record has no *)
(* messages.                                                               *)
(***************************************************************************)
C5_ZeroOrOneRecord ==
    pc = "done" =>
        /\ SourceChunks = <<>> => result = <<>>
        /\ SourceChunks # <<>> =>
              /\ Len(result) = 1
              /\ TurnPositions(Len(SourceChunks)) = {} =>
                    /\ result[1].chat.messages = <<>>
                    /\ result[1].chat.history.messages = <<>>

\* A source of thought chunks only has returned one record without messages.
C5_Witness ==
    /\ pc = "done"
    /\ Len(SourceChunks) = 2
    /\ Flagged(1) /\ Flagged(2)
    /\ Len(result) = 1
    /\ result[1].chat.messages = <<>>

(***************************************************************************)
(* C6.  As claimed: in every returned record history.currentId is the ID   *)
(* of the last message of the list, and the empty string when the list is  *)
(* empty.  The code returns None, not the empty string, for an empty list. *)
(***************************************************************************)
C6_CurrentIdOrEmptyString ==
    Returned =>
        result[1].chat.history.currentId =
            IF result[1].chat.messages = <<>> THEN ""
            ELSE heap[result[1].chat.messages[Len(result[1].chat.messages)]].id

(***************************************************************************)
(* C6, amended.  In every returned record history.currentId is the ID of   *)
(* the last message of the list, and None when the list is empty.          *)
(***************************************************************************)
C6_CurrentIdOrNone ==
    Returned =>
        result[1].chat.history.currentId =
            IF result[1].chat.messages = <<>> THEN None
            ELSE heap[result[1].chat.messages[Len(result[1].chat.messages)]].id

\* A record without messages, made of thought chunks only.
C6_Witness ==
    /\ Returned
    /\ SourceChunks # <<>>
    /\ result[1].chat.messages = <<>>
    /\ result[1].chat.history.currentId = None

(***************************************************************************)
(* C7.  The text a thought chunk adds to the buffer.                       *)
(***************************************************************************)
\* The texts of the parts flagged as thought, in part order.
RECURSIVE C7_FlaggedTexts(_)
C7_FlaggedTexts(parts) ==
    IF parts = <<>> THEN <<>>
    ELSE LET part == Head(parts)
             rest == C7_FlaggedTexts(Tail(parts))
         IN  IF "thought" \in DOMAIN part /\ part.thought
             THEN << IF "text" \in DOMAIN part THEN part.text ELSE "" >> \o rest
             ELSE rest

C7_Parts(k) ==
    IF "parts" \in DOMAIN SourceChunks[k] THEN SourceChunks[k].parts ELSE <<>>

\* As claimed: the flagged parts joined whenever the chunk has parts.
C7_ClaimedText(k) ==
    IF C7_Parts(k) # <<>>
    THEN Join("\n\n", C7_FlaggedTexts(C7_Parts(k)))
    ELSE SourceText(k)

\* As amended: the flagged parts joined whenever at least one part is flagged.
C7_AmendedText(k) ==
    IF C7_FlaggedTexts(C7_Parts(k)) # <<>>
    THEN Join("\n\n", C7_FlaggedTexts(C7_Parts(k)))
    ELSE SourceText(k)

\* The buffer after i chunks, each thought chunk k having added Text(k).
RECURSIVE C7_Buffer(_, _, _)
C7_Buffer(Text(_), lo, hi) ==
    IF lo > hi THEN <<>>
    ELSE IF Flagged(hi)
         THEN Append(C7_Buffer(Text, lo, hi - 1), Text(hi))
         ELSE C7_Buffer(Text, lo, hi - 1)

C8_CommonFields == {"id", "parentId", "childrenIds", "role", "content", "timestamp"}
C8_AssistantFields == {"model", "modelName", "modelIdx", "done"}

C8_ConfiguredModel ==
    IF /\ "runSettings" \in DOMAIN aistudio_data
       /\ "model" \in DOMAIN aistudio_data.runSettings
    THEN aistudio_data.runSettings.model
    ELSE "unknown"

(***************************************************************************)
(* C8.  Role coercion: a message is a user message exactly if the role of  *)
(* its chunk is "user", and an assistant message otherwise (any other      *)
(* role, or none).  An assistant message carries model (that of the run    *)
(* configuration, "unknown" without one), modelName, modelIdx = 0 and      *)
(* done = true; a user message carries none of the four.                   *)
(***************************************************************************)
C8_RoleCoercion ==
    InLoop =>
        \A j \in 1..MessageCount :
            LET message == MessageAt(j)
            IN  /\ message.role = "user" <=> UserTurn(TurnPosition(j))
                /\ message.role \in {"user", "assistant"}
                /\ message.role = "user" => DOMAIN message = C8_CommonFields
                /\ message.role = "assistant" =>
                      /\ DOMAIN message = C8_CommonFields \cup C8_AssistantFields
                      /\ message.model = C8_ConfiguredModel
                      /\ message.modelName = "Converted from AIStudio"
                      /\ message.modelIdx = 0
                      /\ message.done = TRUE

\* A user message, an assistant message of a "model" chunk and an assistant
\* message of a chunk without a role, the run configuration having no model.
C8_Witness ==
    /\ InLoop
    /\ MessageCount = 3
    /\ "runSettings" \in DOMAIN aistudio_data
    /\ MessageAt(1).role = "user"
    /\ "role" \in DOMAIN SourceChunks[2] /\ MessageAt(2).role = "assistant"
    /\ "role" \notin DOMAIN SourceChunks[3] /\ MessageAt(3).role = "assistant"
    /\ MessageAt(3).model = "unknown"

\* A title hint is supplied; string s holds character ch.
C9_HintSupplied == filename # None /\ filename # ""

C9_Has(s, ch) == \E k \in 1..Len(s) : SubSeq(s, k, k) = ch

\* hint = directory path \o title \o extension: the path is empty or ends
\* with "/", the title holds no "/", and the extension is empty or a "."
\* followed by characters other than "." and "/"; the title keeps a "." only
\* where no extension can start (a name made of leading dots and no more).
C9_Stripped(hint, title) ==
    \E d \in 0..Len(hint) :
        LET dir == Prefix(hint, d)
            ext == Suffix(hint, d + Len(title))
        IN  /\ d + Len(title) <= Len(hint)
            /\ hint = dir \o title \o ext
            /\ dir = "" \/ EndsWith(dir, "/")
            /\ ~C9_Has(title, "/")
            /\ ~C9_Has(ext, "/")
            /\ \/ /\ ext # ""
                  /\ Prefix(ext, 1) = "."
                  /\ ~C9_Has(Suffix(ext, 1), ".")
                  /\ \E k \in 1..Len(title) : SubSeq(title, k, k) # "."
               \/ /\ ext = ""
                  /\ \A k \in 2..Len(title) :
                        SubSeq(title, k, k) = "." =>
                            \A m \in 1..k : SubSeq(title, m, m) = "."

(***************************************************************************)
(* C9.  Title resolution: with a title hint, the title is the hint without *)
(* its directory path and without its file extension, whatever the         *)
(* messages are; without one, it is the content of the first message if    *)
(* that is a user message, whole when it has at most 50 characters and cut *)
(* to 50 characters followed by "..." when it has more; otherwise it is    *)
(* "AIStudio Conversation".  The top-level title and chat.title are equal. *)
(* A hint is supplied when it is neither None nor the empty string.        *)
(***************************************************************************)
C9_TitleResolution ==
    Returned =>
        /\ result[1].title = result[1].chat.title
        /\ C9_HintSupplied => C9_Stripped(filename, result[1].title)
        /\ ~C9_HintSupplied /\ MessageCount > 0 /\ MessageAt(1).role = "user" =>
              LET content == MessageAt(1).content
              IN  /\ Len(content) <= 50 => result[1].title = content
                  /\ Len(content) > 50 =>
                        /\ Len(result[1].title) = 53
                        /\ Prefix(result[1].title, 50) = Prefix(content, 50)
                        /\ Suffix(result[1].title, 50) = "..."
        /\ ~C9_HintSupplied /\ (MessageCount = 0 \/ MessageAt(1).role # "user") =>
              result[1].title = "AIStudio Conversation"

\* Without a hint, a first user message of 60 characters has been cut to its
\* first 50 characters and "...".
C9_Witness ==
    /\ Returned
    /\ filename = None
    /\ MessageCount = 2
    /\ MessageAt(1).role = "user"
    /\ Len(MessageAt(1).content) = 60
    /\ Len(result[1].title) = 53
    /\ result[1].title = Prefix(UserText60, 50) \o "..."

\* The entries among the first n of the listing that are not directories.
C10_FileEntries(n) == {k \in 1..n : listing[k].file.kind # "dir"}

\* The names of those entries, in the order of the listing.
RECURSIVE C10_FileNames(_)
C10_FileNames(n) ==
    IF n = 0 THEN <<>>
    ELSE IF listing[n].file.kind # "dir"
         THEN Append(C10_FileNames(n - 1), listing[n].name)
         ELSE C10_FileNames(n - 1)

\* The lines printed for single files: all but the final tally.
C10_FileLines == SelectSeq(stdout, LAMBDA line : line[1] # "Conversion complete")

C10_Count(text) == Len(SelectSeq(stdout, LAMBDA line : line[1] = text))

\* The tally has been printed.
C10_Reported ==
    stdout # <<>> /\ stdout[Len(stdout)][1] = "Conversion complete"

C10_Tally ==
    /\ bpc = "loop" \/ C10_Reported =>
          /\ [k \in 1..Len(C10_FileLines) |-> C10_FileLines[k][2]]
                = C10_FileNames(entry)
          /\ success_count = C10_Count("Successfully converted")
          /\ error_count = C10_Count("Error converting")
          /\ success_count + error_count = Cardinality(C10_FileEntries(entry))
    /\ C10_Reported =>
          /\ bpc = "exit"
          /\ entry = Len(listing)
          /\ success_count + error_count
                = Cardinality(C10_FileEntries(Len(listing)))
          /\ stdout[Len(stdout)] =
                << "Conversion complete", success_count, error_count >>

\* One iteration of the loop, on entry number entry'.
C10_Iteration ==
    bpc = "loop" /\ entry' = entry + 1 =>
        LET file == listing[entry'].file
            name == listing[entry'].name
            output == IF EndsWith(name, ".json") THEN name ELSE name \o ".json"
            written == /\ output \in DOMAIN outputs'
                       /\ outputs'[output].complete
                       /\ outputs'[output].from = name
        IN  /\ bpc' = "loop" /\ listing' = listing
            /\ file.kind = "dir" =>
                  UNCHANGED << success_count, error_count, outputs, stdout >>
            /\ file.kind # "dir" =>
                  /\ success_count' + error_count' = success_count + error_count + 1
                  /\ success_count' = success_count + 1 <=> written
                  /\ success_count' = success_count + 1 \/ success_count' = success_count
            /\ file.kind \in {"unreadable", "unparsable"} =>
                  /\ error_count' = error_count + 1
                  /\ outputs' = outputs

(***************************************************************************)
(* C10.  Batch resilience.  process_directory attempts every entry of the  *)
(* listing that is not a directory exactly once, in the order of the       *)
(* listing, each attempt printing one line and counting as one success or  *)
(* one error.  An attempt on a file that cannot be read or parsed counts   *)
(* one error, changes no output file, and leaves the loop running on the   *)
(* next entry.  An attempt counts as a success exactly if it has written   *)
(* its output whole.  At the end the two counters add up to the number of  *)
(* entries that are not directories.                                       *)
(***************************************************************************)
C10_BatchResilience == [] C10_Tally /\ [][C10_Iteration]_vars

\* A directory of one unparsable file and one valid file, in this order: one
\* error, one success, and an output file for the valid input only.
C10_Witness ==
    /\ C10_Reported
    /\ Len(listing) = 2
    /\ listing[1].file.kind = "unparsable"
    /\ listing[2].file.kind = "document"
    /\ success_count = 1 /\ error_count = 1
    /\ DOMAIN outputs =
          {IF EndsWith(listing[2].name, ".json") THEN listing[2].name
           ELSE listing[2].name \o ".json"}
    /\ outputs[CHOOSE o \in DOMAIN outputs : TRUE].complete

(***************************************************************************)
(* C11.  As claimed: the conversion never fails.  On every document whose  *)
(* chunk fields may be missing or of a mismatched kind (a text that is     *)
(* absent or no string, a role that is absent or no string, a run          *)
(* configuration or model that is absent) the call returns a result and    *)
(* never raises.  The code raises TypeError when a text that is no string  *)
(* meets a string operation: the join of the buffered thoughts, the        *)
(* concatenation with the reasoning block, the length test of the title.   *)
(***************************************************************************)
C11_NeverRaises == pc # "raised"

\* The run has ended with the tally as its last line.
C12_TallyReported ==
    /\ bpc = "exit"
    /\ stdout # <<>>
    /\ stdout[Len(stdout)] = << "Conversion complete", success_count, error_count >>

\* Once the loop over the listing has started, the tally is reached, whatever
\* the entries are and whichever way each attempt ends.
C12_LoopCompletes == (bpc = "loop") ~> C12_TallyReported

(***************************************************************************)
(* C12.  As claimed: batch mode always completes.  Whenever main has        *)
(* selected batch mode (the --batch flag is given, or the input path is a  *)
(* directory) and the output directory is in place, the run eventually     *)
(* prints the final tally, whatever the input path is.  The code leaves    *)
(* process_directory with an uncaught exception when os.listdir raises     *)
(* (--batch with an input path that is a file or is missing): no tally is  *)
(* printed.  The same happens earlier when os.makedirs raises.             *)
(***************************************************************************)
C12_BatchCompletes == (bpc = "listdir") ~> C12_TallyReported

(***************************************************************************)
(* C13.  Sequential timestamps: the message at position k of the list (k   *)
(* counted from 0) has timestamp base + k, base being the one clock value  *)
(* the call has read; so the timestamps of consecutive messages differ by  *)
(* exactly 1 however many thought chunks lie between their chunks, and the *)
(* message index is the number of messages, not of chunks.  The returned   *)
(* record's timestamp, created_at and updated_at all equal base.           *)
(***************************************************************************)
C13_SequentialTimestamps ==
    InLoop =>
        /\ base_timestamp \in ClockValues
        /\ message_index = MessageCount
        /\ \A j \in 1..MessageCount :
              MessageAt(j).timestamp = base_timestamp + (j - 1)
        /\ \A j \in 2..MessageCount :
              MessageAt(j).timestamp = MessageAt(j - 1).timestamp + 1
        /\ Returned =>
              /\ result[1].chat.timestamp = base_timestamp
              /\ result[1].created_at = base_timestamp
              /\ result[1].updated_at = base_timestamp

\* Two messages with a thought chunk between their chunks, one second apart,
\* in a returned record.
C13_Witness ==
    /\ Returned
    /\ Len(SourceChunks) = 3
    /\ ~Flagged(1) /\ Flagged(2) /\ ~Flagged(3)
    /\ MessageCount = 2
    /\ MessageAt(1).timestamp = result[1].created_at
    /\ MessageAt(2).timestamp = result[1].created_at + 1

\* The texts of the thought chunks that lie before chunk k with nothing but
\* thought chunks and user turn chunks between them and k, in chunk order.
RECURSIVE C14_ThoughtsSince(_)
C14_ThoughtsSince(k) ==
    IF k = 1 \/ AssistantTurn(k - 1) THEN <<>>
    ELSE IF Flagged(k - 1)
         THEN Append(C14_ThoughtsSince(k - 1), ThoughtContent(SourceChunks[k - 1]))
         ELSE C14_ThoughtsSince(k - 1)

\* Every user message is its chunk's text, and every assistant message
\* carries the thoughts buffered before it, user turns or not in between.
C14_Contents ==
    InLoop =>
        \A j \in 1..MessageCount :
            LET k == TurnPosition(j)
                thoughts == C14_ThoughtsSince(k)
            IN  /\ UserTurn(k) => MessageAt(j).content = SourceText(k)
                /\ AssistantTurn(k) /\ thoughts # <<>> =>
                      MessageAt(j).content =
                          ReasoningBlock(Join("\n\n", thoughts)) \o "\n\n"
                          \o SourceText(k)

\* One iteration of the loop on a user turn chunk: the buffer stays as it is
\* and the new message is the chunk's text.
C14_UserTurnStep ==
    pc = "loop" /\ i' = i + 1 /\ UserTurn(i + 1) =>
        /\ pending_thoughts' = pending_thoughts
        /\ Len(messages_list') = Len(messages_list) + 1
        /\ heap'[messages_list'[Len(messages_list')]].role = "user"
        /\ heap'[messages_list'[Len(messages_list')]].content = SourceText(i + 1)

(***************************************************************************)
(* C14.  Processing a user turn chunk leaves the thought buffer unchanged: *)
(* the user message's content is exactly the chunk's text, never prefixed  *)
(* with a reasoning block, and the thoughts buffered before one or more    *)
(* user turns are still attached, in order, to the first assistant message *)
(* that follows.                                                           *)
(***************************************************************************)
C14_UserTurnsKeepThoughts == [] C14_Contents /\ [][C14_UserTurnStep]_vars

\* A thought chunk, a user turn and an assistant turn: the user message is
\* plain and the assistant message after it carries the thought.
C14_Witness ==
    /\ pc = "loop"
    /\ i = 3
    /\ Flagged(1) /\ UserTurn(2) /\ AssistantTurn(3)
    /\ MessageAt(1).content = "Hello there"
    /\ MessageAt(2).content = ReasoningBlock("plan") \o "\n\nSure."
    /\ pending_thoughts = <<>>

\* Message object ref keeps every field but childrenIds in a step.
C15_FieldsKept(ref) ==
    /\ ref <= Len(heap')
    /\ DOMAIN heap'[ref] = DOMAIN heap[ref]
    /\ \A field \in DOMAIN heap[ref] \ {"childrenIds"} :
          heap'[ref][field] = heap[ref][field]

\* The step creates a message: the list grows by one object, a new one.
C15_Creates ==
    /\ Len(messages_list') = Len(messages_list) + 1
    /\ Len(heap') = Len(heap) + 1
    /\ messages_list'[Len(messages_list')] = Len(heap')

\* What a step may do to the messages that exist: nothing, but for one
\* append of the new message's ID to the childrenIds of the last message.
C15_Step ==
    /\ \A j \in 1..Len(messages_list) : messages_list'[j] = messages_list[j]
    /\ \A ref \in 1..Len(heap) :
          /\ C15_FieldsKept(ref)
          /\ \/ heap'[ref].childrenIds = heap[ref].childrenIds
             \/ /\ C15_Creates
                /\ ref = messages_list[Len(messages_list)]
                /\ heap'[ref].childrenIds =
                      Append(heap[ref].childrenIds, heap'[Len(heap')].id)
    /\ C15_Creates /\ messages_list # <<>> =>
          heap'[messages_list[Len(messages_list)]].childrenIds =
              Append(heap[messages_list[Len(messages_list)]].childrenIds,
                     heap'[Len(heap')].id)
    /\ pc = "loop" /\ i' = i + 1 /\ Flagged(i + 1) =>
          /\ heap' = heap
          /\ messages' = messages
          /\ messages_list' = messages_list

(***************************************************************************)
(* C15.  Once a message has been created, processing any later chunk       *)
(* leaves its id, parentId, role, content, timestamp and model fields      *)
(* unchanged; the only later change to an existing message is a single     *)
(* append of the next message's ID to the childrenIds of the message that  *)
(* was last in the list, and processing a thought chunk changes no message *)
(* at all.                                                                 *)
(***************************************************************************)
C15_MessagesFrozen == [][C15_Step]_vars

\* Two messages, the first of which has got the second as its child, and a
\* thought chunk processed after them.
C15_Witness ==
    /\ pc = "loop"
    /\ i = 3
    /\ ~Flagged(1) /\ ~Flagged(2) /\ Flagged(3)
    /\ MessageCount = 2
    /\ MessageAt(1).childrenIds = << MessageAt(2).id >>
    /\ MessageAt(2).childrenIds = <<>>
    /\ pending_thoughts # <<>>

\* The output name of the rule: the input name, with ".json" appended unless
\* the name already ends in ".json".
C16_OutputName(name) ==
    IF EndsWith(name, ".json") THEN name ELSE name \o ".json"

\* The names of the entries that have been written, by their printed lines.
C16_Written ==
    { stdout[k][2] : k \in {n \in 1..Len(stdout) :
                               stdout[n][1] = "Successfully converted"} }

(***************************************************************************)
(* C16.  As claimed: in batch mode no output is overwritten by another     *)
(* input of the same batch.  Any two distinct entries of the input         *)
(* directory that have been written have been written to two distinct      *)
(* output paths, and the output of each still holds its own conversion.    *)
(* The rule maps the entries "a" and "a.json" to the one path "a.json",    *)
(* so the second of them to be processed replaces the output of the first. *)
(***************************************************************************)
C16_NoOutputOverwritten ==
    /\ \A x, y \in C16_Written :
          x # y => C16_OutputName(x) # C16_OutputName(y)
    /\ bpc \in {"loop", "exit"} /\ listing # <<>> =>
          \A x \in C16_Written :
              /\ C16_OutputName(x) \in DOMAIN outputs
              /\ outputs[C16_OutputName(x)].from = x

\* The IDs uuid4() returned to the call of a frame, in the order of its
\* messages.
C17_Ids(frame) ==
    [j \in 1..Len(frame.loc.messages_list) |->
        frame.loc.heap[frame.loc.messages_list[j]].id]

\* The loop run on a chunk list with no other call under way, uuid4()
\* returning the values of ids in turn.
RECURSIVE C17_Loop(_, _, _, _)
C17_Loop(loc, chunks, data, ids) ==
    IF chunks = <<>> THEN loc
    ELSE LET chunk == Head(chunks)
         IN  C17_Loop(IF IsThought(chunk)
                      THEN ThoughtStep(loc, chunk)
                      ELSE TurnStep(loc, chunk, ids[loc.message_index + 1], data),
                      Tail(chunks), data, ids)

\* The locals a call run on its own has after the chunks this frame has
\* processed, given the clock value and the IDs this frame was given.
C17_Alone(frame) ==
    C17_Loop(InitialLocals(frame.loc.base_timestamp),
             SubSeq(Chunks(frame.data), 1, frame.i), frame.data, C17_Ids(frame))

\* The set of message IDs of a frame.
C17_IdSet(frame) == {C17_Ids(frame)[j] : j \in 1..Len(frame.loc.messages_list)}

(***************************************************************************)
(* C17.  Conversions share no state.  However the steps of the calls are   *)
(* interleaved, one call after the other included, the locals of every     *)
(* call and the record it returns are those of a call run on its own on    *)
(* the same document and title hint, with the clock value and the IDs this *)
(* call was given.  So a thought left over in one call appears in no       *)
(* message of another, the first message of every call has no parent and   *)
(* the base timestamp (index 0), and no ID is given to two calls.          *)
(***************************************************************************)
C17_NoSharedState ==
    /\ \A c \in DOMAIN calls :
          LET frame == calls[c]
          IN  /\ frame.pc = "loop" => frame.loc = C17_Alone(frame)
              /\ frame.pc = "done" =>
                    IF Chunks(frame.data) = <<>>
                    THEN frame.result = <<>>
                    ELSE /\ frame.loc = C17_Alone(frame)
                         /\ frame.result =
                               << OpenWebUIChat(C17_Alone(frame), frame.data,
                                                frame.hint) >>
              /\ frame.loc.messages_list # <<>> =>
                    /\ frame.loc.heap[frame.loc.messages_list[1]].parentId = None
                    /\ frame.loc.heap[frame.loc.messages_list[1]].timestamp =
                          frame.loc.base_timestamp
    /\ \A c, d \in DOMAIN calls :
          c # d => C17_IdSet(calls[c]) \cap C17_IdSet(calls[d]) = {}

\* Two calls in their loops at once: the first holds a thought that no
\* message of its document takes, the second has made an assistant message
\* after it, which carries its own thoughts only and starts its own chain.
C17_Witness ==
    /\ calls[1].pc = "loop" /\ calls[1].i = 2
    /\ calls[2].pc = "loop" /\ calls[2].i = 2
    /\ calls[1].loc.pending_thoughts = << "plan" >>
    /\ calls[1].loc.base_timestamp # calls[2].loc.base_timestamp
    /\ calls[1].loc.heap[1].id = Uuid(1)
    /\ calls[2].loc.heap[1].id = Uuid(2)
    /\ calls[2].loc.heap[1].content = ReasoningBlock("p1\n\np2") \o "\n\nSure."
    /\ calls[2].loc.heap[1].parentId = None
    /\ calls[2].loc.heap[1].timestamp = calls[2].loc.base_timestamp

====
